---- MODULE Spec2Model ----
(***************************************************************************)
(* GIPA (generalized inner product argument) prover and verifier of        *)
(* ip_proofs/src/gipa.rs, instantiated as in tests::scalar_inner_product_   *)
(* test: scalars, messages, keys and commitment outputs are elements of a  *)
(* prime field (a prime-order group written additively), LMC and RMC are   *)
(* Pedersen commitments, IPC is the identity commitment, IP is the scalar  *)
(* inner product.                                                          *)
(***************************************************************************)
EXTENDS Integers, Sequences, FiniteSets, TLC

VARIABLES
    values,     \* (m_a, m_b, t): the messages and claimed inner product of the caller
    ck,         \* (ck_a, ck_b, ck_t): the commitment keys of the caller
    com,        \* (com_a, com_b, com_t): the commitments of the caller
    pc,         \* "idle" | "proving" | "verifying" | "abort"
    op,         \* the public operation running or last run
    prover,     \* locals of _prove
    verifier,   \* locals of _verify
    proof,      \* the GIPAProof the caller holds
    aux,        \* the GIPAAux returned by the last prover run
    result,     \* outcome of the last operation
    accept,     \* the boolean of the last Ok(bool) of verify
    challenges, \* the last output of verify_recursive_challenge_transcript
    trace,      \* history: the prover's challenge and folded vectors after each round
    vtrace,     \* history: the verifier's challenge, keys and commitments after each round
    origin,     \* "given" | "prover" | "base0" | "base1": where the held proof comes from
    accepted    \* history: verify returned Ok(true) for the proof before it was changed

vars == <<values, ck, com, pc, op, prover, verifier, proof, aux, result, accept,
          challenges, trace, vtrace, origin, accepted>>

----------------------------------------------------------------------------
(* Bounds of the model *)

MaxLen == 4      \* vectors of length 0..MaxLen
NumSeeds == 3    \* number of distinct contents per vector

(* Modulus of the scalar field LMC::Scalar (Fr in the tests), scaled down *)
P == 5

Scalar == 0..(P - 1)

----------------------------------------------------------------------------
(* Field and module arithmetic *)

Add(x, y) == (x + y) % P

Mul(x, y) == (x * y) % P

\* Field::inverse: None for a scalar without inverse
HasInverse(c) == \E d \in Scalar : Mul(c, d) = 1

Inverse(c) == CHOOSE d \in Scalar : Mul(c, d) = 1

\* crate::mul_helper(t, c) = t * c
mul_helper(t, c) == Mul(t, c)

Min(a, b) == IF a <= b THEN a ELSE b

\* usize::count_ones() == 1, usize::is_power_of_two()
RECURSIVE is_power_of_two(_)
is_power_of_two(n) ==
    IF n <= 0 THEN FALSE
    ELSE IF n = 1 THEN TRUE
    ELSE IF n % 2 = 1 THEN FALSE
    ELSE is_power_of_two(n \div 2)

RECURSIVE Log2(_)
Log2(n) == IF n <= 1 THEN 0 ELSE 1 + Log2(n \div 2)

\* Vec::reverse
Reverse(s) == [i \in 1..Len(s) |-> s[Len(s) + 1 - i]]

\* &v[k..] and &v[..k]; both panic when k > v.len()
SliceFrom(v, k) == SubSeq(v, k + 1, Len(v))

SliceTo(v, k) == SubSeq(v, 1, k)

SlicePanics(v, k) == k > Len(v)

\* Result values
Ok(v) == [ok |-> TRUE, v |-> v]

Err(kind) == [ok |-> FALSE, v |-> kind]

----------------------------------------------------------------------------
(* External collaborators: inner product and commitments *)

RECURSIVE DotSum(_, _, _)
DotSum(l, r, i) ==
    IF i = 0 THEN 0 ELSE Add(DotSum(l, r, i - 1), Mul(l[i], r[i]))

\* IP::inner_product: sum of l[i] * r[i]; an error when the lengths differ
inner_product(l, r) ==
    IF Len(l) # Len(r) THEN Err("InnerProductError")
    ELSE Ok(DotSum(l, r, Len(l)))

\* LMC::commit, RMC::commit (Pedersen): sum of m[i] * k[i]; an error when the
\* lengths differ
commit(k, m) ==
    IF Len(k) # Len(m) THEN Err("CommitmentError")
    ELSE Ok(DotSum(k, m, Len(k)))

\* LMC::verify, RMC::verify: recompute and compare
commit_verify(k, m, c) ==
    LET r == commit(k, m) IN IF r.ok THEN Ok(r.v = c) ELSE r

\* IPC::commit (identity commitment): the output is the message, the key is a
\* placeholder; the message vector always has one element here
ipc_commit(k, m) == Ok(m[1])

\* IPC::verify
ipc_verify(k, m, c) == Ok(ipc_commit(k, m).v = c)

----------------------------------------------------------------------------
(* Fiat-Shamir challenge *)

\* number of distinct digests; digests P..DigestRange-1 are no field elements
DigestRange == P + 3

\* D::digest over counter_nonce and to_bytes![transcript, com_1.0, com_1.1,
\* com_1.2, com_2.0, com_2.1, com_2.2]
Digest(counter_nonce, transcript, com_1, com_2) ==
    (counter_nonce + 2 * transcript + 3 * com_1[1] + 5 * com_1[2] + 7 * com_1[3]
       + 11 * com_2[1] + 13 * com_2[2] + 17 * com_2[3] + 1) % DigestRange

\* Scalar::from_random_bytes: None for a digest outside the field
from_random_bytes_ok(d) == d < P

\* the 'challenge loop: retry with the next counter_nonce until the digest is
\* an invertible field element
RECURSIVE ChallengeLoop(_, _, _, _)
ChallengeLoop(counter_nonce, transcript, com_1, com_2) ==
    LET d == Digest(counter_nonce, transcript, com_1, com_2) IN
    IF from_random_bytes_ok(d) /\ HasInverse(d)
    THEN [c |-> d, c_inv |-> Inverse(d)]
    ELSE ChallengeLoop(counter_nonce + 1, transcript, com_1, com_2)

\* r_transcript.last().unwrap_or(&default_transcript)
LastOrDefault(r_transcript) ==
    IF Len(r_transcript) = 0 THEN 0 ELSE r_transcript[Len(r_transcript)]

\* Fiat-Shamir challenge of _prove
ProveChallenge(r_transcript, com_1, com_2) ==
    ChallengeLoop(0, LastOrDefault(r_transcript), com_1, com_2)

\* mutant: the helper hashes the default transcript in every round
RecursiveChallenge_NoChaining(r_transcript, com_1, com_2) ==
    ChallengeLoop(0, 0, com_1, com_2)

\* Fiat-Shamir challenge of _verify_recursive_challenges
RecursiveChallenge(r_transcript, com_1, com_2) ==
    ChallengeLoop(0, LastOrDefault(r_transcript), com_1, com_2)

\* Fiat-Shamir challenge of _verify
VerifyChallenge(transcript, com_1, com_2) ==
    ChallengeLoop(0, transcript, com_1, com_2)

----------------------------------------------------------------------------
(* Folding *)

\* xs.iter().map(|x| mul_helper(x, s)).zip(ys).map(|(x, y)| x + y).collect()
ZipFold(xs, s, ys) ==
    [i \in 1..Min(Len(xs), Len(ys)) |-> Add(mul_helper(xs[i], s), ys[i])]

\* _prove: m_a = c * m_a_1 + m_a_2
ProveFoldMA(m_a_1, m_a_2, c, c_inv) == ZipFold(m_a_1, c, m_a_2)

\* _prove: m_b = c_inv * m_b_2 + m_b_1
ProveFoldMB(m_b_1, m_b_2, c, c_inv) == ZipFold(m_b_2, c_inv, m_b_1)

\* _prove: ck_a = c_inv * ck_a_2 + ck_a_1
ProveFoldCkA(ck_a_1, ck_a_2, c, c_inv) == ZipFold(ck_a_2, c_inv, ck_a_1)

\* mutant: the prover scales the upper right-key half by c_inv instead of c
ProveFoldCkB_WrongScalar(ck_b_1, ck_b_2, c, c_inv) == ZipFold(ck_b_1, c_inv, ck_b_2)

\* _prove: ck_b = c * ck_b_1 + ck_b_2
ProveFoldCkB(ck_b_1, ck_b_2, c, c_inv) == ZipFold(ck_b_1, c, ck_b_2)

\* mutant: the verifier scales the upper key half by c instead of c_inv
VerifyFoldCkA_WrongScalar(ck_a_1, ck_a_2, c, c_inv) == ZipFold(ck_a_2, c, ck_a_1)

\* _verify: ck_a = c_inv * ck_a_2 + ck_a_1
VerifyFoldCkA(ck_a_1, ck_a_2, c, c_inv) == ZipFold(ck_a_2, c_inv, ck_a_1)

\* _verify: ck_b = c * ck_b_1 + ck_b_2
VerifyFoldCkB(ck_b_1, ck_b_2, c, c_inv) == ZipFold(ck_b_1, c, ck_b_2)

\* com_x = c * com_1.x + com_x + c_inv * com_2.x
FoldCom(com_1_x, com_x, com_2_x, c, c_inv) ==
    Add(Add(mul_helper(com_1_x, c), com_x), mul_helper(com_2_x, c_inv))

\* _verify: the three commitment folds
VerifyFoldComs(com_1, com_2, cm, c, c_inv) ==
    <<FoldCom(com_1[1], cm[1], com_2[1], c, c_inv),
      FoldCom(com_1[2], cm[2], com_2[2], c, c_inv),
      FoldCom(com_1[3], cm[3], com_2[3], c, c_inv)>>

\* _verify_recursive_challenges: the three commitment folds
RecursiveFoldComs(com_1, com_2, cm, c, c_inv) ==
    <<FoldCom(com_1[1], cm[1], com_2[1], c, c_inv),
      FoldCom(com_1[2], cm[2], com_2[2], c, c_inv),
      FoldCom(com_1[3], cm[3], com_2[3], c, c_inv)>>

----------------------------------------------------------------------------
(* Errors and results *)

InnerProductInvalid == [kind |-> "InnerProductInvalid", lenA |-> 0, lenB |-> 0]

MessageLengthInvalid(lenA, lenB) ==
    [kind |-> "MessageLengthInvalid", lenA |-> lenA, lenB |-> lenB]

\* an error of IP or of a commitment scheme, passed on by the ? operator
External(kind) == [kind |-> kind, lenA |-> 0, lenB |-> 0]

NoError == [kind |-> "", lenA |-> 0, lenB |-> 0]

NoResult == [status |-> "none", err |-> NoError]

Running == [status |-> "running", err |-> NoError]

ResultOk == [status |-> "ok", err |-> NoError]

ResultErr(e) == [status |-> "err", err |-> e]

Panic == [status |-> "panic", err |-> NoError]

NoProver == [m_a |-> <<>>, m_b |-> <<>>, ck_a |-> <<>>, ck_b |-> <<>>, ck_t |-> 0,
             r_commitment_steps |-> <<>>, r_transcript |-> <<>>]

NoVerifier == [ck_a |-> <<>>, ck_b |-> <<>>, ck_t |-> 0, com |-> <<0, 0, 0>>,
               transcript |-> 0, i |-> 0]

NoAux == [present |-> FALSE, r_transcript |-> <<>>, ck_base |-> <<0, 0>>]

NoChallenges == [present |-> FALSE, com |-> <<0, 0, 0>>, r_transcript |-> <<>>]

----------------------------------------------------------------------------
(* GIPA::prove: the checks before prove_with_aux *)

\* mutant: the opening of the right commitment is not checked
ProveOpenings_SkipRight(v, k, cm) ==
    LET l == commit_verify(k[1], v[1], cm[1])
        t == ipc_verify(k[3], <<v[3]>>, cm[3])
    IN  IF ~l.ok THEN l
        ELSE IF ~l.v THEN Ok(FALSE)
        ELSE t

\* the three opening checks, each with ?, joined by the short-circuit &&
ProveOpenings(v, k, cm) ==
    LET l == commit_verify(k[1], v[1], cm[1])
        r == commit_verify(k[2], v[2], cm[2])
        t == ipc_verify(k[3], <<v[3]>>, cm[3])
    IN  IF ~l.ok THEN l
        ELSE IF ~l.v THEN Ok(FALSE)
        ELSE IF ~r.ok THEN r
        ELSE IF ~r.v THEN Ok(FALSE)
        ELSE t

\* NoError when prove goes on to prove_with_aux, else the error it returns
ProveChecks(v, k, cm) ==
    LET ip == inner_product(v[1], v[2])
        open == ProveOpenings(v, k, cm)
    IN  IF ~ip.ok THEN External(ip.v)
        ELSE IF ip.v # v[3] THEN InnerProductInvalid
        ELSE IF ~is_power_of_two(Len(v[1]))
             THEN MessageLengthInvalid(Len(v[1]), Len(v[2]))
        ELSE IF ~open.ok THEN External(open.v)
        ELSE IF ~open.v THEN InnerProductInvalid
        ELSE NoError

\* mutant: verify compares the two key lengths only
VerifyChecks_NoPowerOfTwo(k) ==
    IF Len(k[1]) # Len(k[2])
    THEN MessageLengthInvalid(Len(k[1]), Len(k[2]))
    ELSE NoError

\* GIPA::verify: the check before _verify
VerifyChecks(k) ==
    IF ~is_power_of_two(Len(k[1])) \/ Len(k[1]) # Len(k[2])
    THEN MessageLengthInvalid(Len(k[1]), Len(k[2]))
    ELSE NoError

----------------------------------------------------------------------------
(* GIPA::_prove: one iteration of the 'recurse loop *)

\* mutant: the loop ends one round early
ProveAtBase_TooEarly(m_a) == Len(m_a) <= 2

\* the loop ends when one message is left
ProveAtBase(m_a) == Len(m_a) = 1

\* base case: m_a[0], m_b[0], ck_a[0], ck_b[0]; an index out of range panics
ProveBase(st) ==
    IF Len(st.m_b) < 1 \/ Len(st.ck_a) < 1 \/ Len(st.ck_b) < 1
    THEN [kind |-> "panic"]
    ELSE [kind |-> "done",
          m_base |-> <<st.m_a[1], st.m_b[1]>>,
          ck_base |-> <<st.ck_a[1], st.ck_b[1]>>]

\* mutant: the prover does not reverse its lists
ProveOutputOrder_NotReversed(s) == s

\* the order in which the finished prover stores its two lists
ProveOutputOrder(s) == Reverse(s)

\* recursive step
ProveRound(st) ==
    LET split == Len(st.m_a) \div 2 IN
    IF SlicePanics(st.ck_a, split) \/ SlicePanics(st.m_b, split)
       \/ SlicePanics(st.ck_b, split)
    THEN [kind |-> "panic"]
    ELSE
    LET m_a_1 == SliceFrom(st.m_a, split)
        m_a_2 == SliceTo(st.m_a, split)
        ck_a_1 == SliceTo(st.ck_a, split)
        ck_a_2 == SliceFrom(st.ck_a, split)
        m_b_1 == SliceTo(st.m_b, split)
        m_b_2 == SliceFrom(st.m_b, split)
        ck_b_1 == SliceFrom(st.ck_b, split)
        ck_b_2 == SliceTo(st.ck_b, split)
        l1 == commit(ck_a_1, m_a_1)
        r1 == commit(ck_b_1, m_b_1)
        p1 == inner_product(m_a_1, m_b_1)
        l2 == commit(ck_a_2, m_a_2)
        r2 == commit(ck_b_2, m_b_2)
        p2 == inner_product(m_a_2, m_b_2)
    IN  IF ~l1.ok THEN [kind |-> "err", err |-> External(l1.v)]
        ELSE IF ~r1.ok THEN [kind |-> "err", err |-> External(r1.v)]
        ELSE IF ~p1.ok THEN [kind |-> "err", err |-> External(p1.v)]
        ELSE IF ~l2.ok THEN [kind |-> "err", err |-> External(l2.v)]
        ELSE IF ~r2.ok THEN [kind |-> "err", err |-> External(r2.v)]
        ELSE IF ~p2.ok THEN [kind |-> "err", err |-> External(p2.v)]
        ELSE
        LET com_1 == <<l1.v, r1.v, ipc_commit(st.ck_t, <<p1.v>>).v>>
            com_2 == <<l2.v, r2.v, ipc_commit(st.ck_t, <<p2.v>>).v>>
            ch == ProveChallenge(st.r_transcript, com_1, com_2)
        IN  [kind |-> "next",
             c |-> ch.c,
             st |-> [m_a |-> ProveFoldMA(m_a_1, m_a_2, ch.c, ch.c_inv),
                     m_b |-> ProveFoldMB(m_b_1, m_b_2, ch.c, ch.c_inv),
                     ck_a |-> ProveFoldCkA(ck_a_1, ck_a_2, ch.c, ch.c_inv),
                     ck_b |-> ProveFoldCkB(ck_b_1, ck_b_2, ch.c, ch.c_inv),
                     ck_t |-> st.ck_t,
                     r_commitment_steps |->
                         Append(st.r_commitment_steps, <<com_1, com_2>>),
                     r_transcript |-> Append(st.r_transcript, ch.c)]]

----------------------------------------------------------------------------
(* GIPA::_verify: one iteration of the loop, and the base check *)

\* mutant: the split point of the keys is never below 1
VerifyRound_SplitAtLeastOne(st, step) ==
    LET com_1 == step[1]
        com_2 == step[2]
        ch == VerifyChallenge(st.transcript, com_1, com_2)
        split == IF Len(st.ck_a) \div 2 < 1 THEN 1 ELSE Len(st.ck_a) \div 2
    IN  IF SlicePanics(st.ck_a, split) \/ SlicePanics(st.ck_b, split)
        THEN [kind |-> "panic"]
        ELSE
        LET ck_a_1 == SliceTo(st.ck_a, split)
            ck_a_2 == SliceFrom(st.ck_a, split)
            ck_b_1 == SliceFrom(st.ck_b, split)
            ck_b_2 == SliceTo(st.ck_b, split)
        IN  [kind |-> "next",
             st |-> [ck_a |-> ZipFold(ck_a_2, ch.c_inv, ck_a_1),
                     ck_b |-> ZipFold(ck_b_1, ch.c, ck_b_2),
                     ck_t |-> st.ck_t,
                     com |-> <<Add(Add(mul_helper(com_1[1], ch.c), st.com[1]),
                                   mul_helper(com_2[1], ch.c_inv)),
                               Add(Add(mul_helper(com_1[2], ch.c), st.com[2]),
                                   mul_helper(com_2[2], ch.c_inv)),
                               Add(Add(mul_helper(com_1[3], ch.c), st.com[3]),
                                   mul_helper(com_2[3], ch.c_inv))>>,
                     transcript |-> ch.c,
                     i |-> st.i - 1]]

VerifyRound(st, step) ==
    LET com_1 == step[1]
        com_2 == step[2]
        ch == VerifyChallenge(st.transcript, com_1, com_2)
        split == Len(st.ck_a) \div 2
    IN  IF SlicePanics(st.ck_a, split) \/ SlicePanics(st.ck_b, split)
        THEN [kind |-> "panic"]
        ELSE
        LET ck_a_1 == SliceTo(st.ck_a, split)
            ck_a_2 == SliceFrom(st.ck_a, split)
            ck_b_1 == SliceFrom(st.ck_b, split)
            ck_b_2 == SliceTo(st.ck_b, split)
        IN  [kind |-> "next",
             st |-> [ck_a |-> VerifyFoldCkA(ck_a_1, ck_a_2, ch.c, ch.c_inv),
                     ck_b |-> VerifyFoldCkB(ck_b_1, ck_b_2, ch.c, ch.c_inv),
                     ck_t |-> st.ck_t,
                     com |-> VerifyFoldComs(com_1, com_2, st.com, ch.c, ch.c_inv),
                     transcript |-> ch.c,
                     i |-> st.i - 1]]

\* mutant: the base check leaves out LMC::verify
VerifyBase_SkipLeft(st, r_base) ==
    LET a_base == <<r_base[1]>>
        b_base == <<r_base[2]>>
        ip == inner_product(a_base, b_base)
        r == commit_verify(st.ck_b, b_base, st.com[2])
    IN  IF ~ip.ok THEN ip
        ELSE IF ~r.ok THEN r
        ELSE IF ~r.v THEN Ok(FALSE)
        ELSE ipc_verify(st.ck_t, <<ip.v>>, st.com[3])

\* LMC::verify(..)? && RMC::verify(..)? && IPC::verify(..)?
VerifyBase(st, r_base) ==
    LET a_base == <<r_base[1]>>
        b_base == <<r_base[2]>>
        ip == inner_product(a_base, b_base)
        l == commit_verify(st.ck_a, a_base, st.com[1])
        r == commit_verify(st.ck_b, b_base, st.com[2])
    IN  IF ~ip.ok THEN ip
        ELSE IF ~l.ok THEN l
        ELSE IF ~l.v THEN Ok(FALSE)
        ELSE IF ~r.ok THEN r
        ELSE IF ~r.v THEN Ok(FALSE)
        ELSE ipc_verify(st.ck_t, <<ip.v>>, st.com[3])

----------------------------------------------------------------------------
(* GIPA::_verify_recursive_challenges: the whole loop *)

\* the order in which the finished helper returns its challenges
RecursiveOutputOrder(s) == Reverse(s)

\* rounds i, i-1, .., 1 of proof.r_commitment_steps.iter().rev()
RECURSIVE RecursiveLoop(_, _, _, _)
RecursiveLoop(steps, i, cm, r_transcript) ==
    IF i = 0 THEN [com |-> cm, r_transcript |-> r_transcript]
    ELSE LET ch == RecursiveChallenge(r_transcript, steps[i][1], steps[i][2])
         IN  RecursiveLoop(steps, i - 1,
                 RecursiveFoldComs(steps[i][1], steps[i][2], cm, ch.c, ch.c_inv),
                 Append(r_transcript, ch.c))

\* GIPA::verify_recursive_challenge_transcript
verify_recursive_challenge_transcript(cm, pf) ==
    LET out == RecursiveLoop(pf.r_commitment_steps, Len(pf.r_commitment_steps),
                             cm, <<>>)
    IN  [present |-> TRUE, com |-> out.com,
         r_transcript |-> RecursiveOutputOrder(out.r_transcript)]

----------------------------------------------------------------------------
(* Inputs of the caller *)

Seeds == 0..(NumSeeds - 1)

Lengths == 0..MaxLen

\* the vector of length n with contents number s
Vec(s, n) == [i \in 1..n |-> (s * (i + s)) % P]

\* how the caller's t and commitments differ from the honest ones
Perturbations == {"none", "t", "t_and_com_t", "com_a", "com_b", "com_t"}

ValueOr(r, d) == IF r.ok THEN r.v ELSE d

InputT(m_a, m_b, pert) ==
    Add(ValueOr(inner_product(m_a, m_b), 0),
        IF pert \in {"t", "t_and_com_t"} THEN 1 ELSE 0)

InputCom(m_a, m_b, k_a, k_b, pert) ==
    <<Add(ValueOr(commit(k_a, m_a), 0), IF pert = "com_a" THEN 1 ELSE 0),
      Add(ValueOr(commit(k_b, m_b), 0), IF pert = "com_b" THEN 1 ELSE 0),
      Add(ValueOr(inner_product(m_a, m_b), 0),
          IF pert \in {"com_t", "t_and_com_t"} THEN 1 ELSE 0)>>

\* the proof the caller holds before any prover run
GivenProof == [r_commitment_steps |-> <<>>, r_base |-> <<0, 0>>]

Init ==
    /\ \E la, lb, lka, lkb \in Lengths :
       \E sa, sb, ska, skb \in Seeds :
       \E pert \in Perturbations :
          \* vectors of unequal lengths all take contents number 1
          /\ (la = lb /\ lb = lka /\ lka = lkb) \/ (sa = 1 /\ sb = 1 /\ ska = 1 /\ skb = 1)
          /\ LET m_a == Vec(sa, la)
                 m_b == Vec(sb, lb)
                 k_a == Vec(ska, lka)
                 k_b == Vec(skb, lkb)
             IN  /\ values = <<m_a, m_b, InputT(m_a, m_b, pert)>>
                 /\ ck = <<k_a, k_b, 0>>
                 /\ com = InputCom(m_a, m_b, k_a, k_b, pert)
    /\ pc = "idle"
    /\ op = "none"
    /\ prover = NoProver
    /\ verifier = NoVerifier
    /\ proof = GivenProof
    /\ aux = NoAux
    /\ result = NoResult
    /\ accept = FALSE
    /\ challenges = NoChallenges
    /\ trace = <<>>
    /\ vtrace = <<>>
    /\ origin = "given"
    /\ accepted = FALSE

----------------------------------------------------------------------------
(* Operations *)

\* entry of GIPA::_prove: the locals, after assert!(m_a.len().is_power_of_two())
EnterProve ==
    IF ~is_power_of_two(Len(values[1]))
    THEN /\ pc' = "abort"
         /\ result' = Panic
         /\ UNCHANGED <<prover, trace>>
    ELSE /\ pc' = "proving"
         /\ result' = Running
         /\ prover' = [m_a |-> values[1], m_b |-> values[2],
                       ck_a |-> ck[1], ck_b |-> ck[2], ck_t |-> ck[3],
                       r_commitment_steps |-> <<>>, r_transcript |-> <<>>]
         /\ trace' = <<>>

\* GIPA::prove up to the first iteration of the loop
Prove ==
    /\ pc = "idle"
    /\ op' = "prove"
    /\ accept' = FALSE
    /\ challenges' = NoChallenges
    /\ LET e == ProveChecks(values, ck, com) IN
       IF e # NoError
       THEN /\ result' = ResultErr(e)
            /\ UNCHANGED <<pc, prover, trace>>
       ELSE EnterProve
    /\ UNCHANGED <<values, ck, com, verifier, proof, aux, vtrace, origin, accepted>>

\* GIPA::prove_with_aux up to the first iteration of the loop
ProveWithAux ==
    /\ pc = "idle"
    /\ op' = "prove_with_aux"
    /\ accept' = FALSE
    /\ challenges' = NoChallenges
    /\ EnterProve
    /\ UNCHANGED <<values, ck, com, verifier, proof, aux, vtrace, origin, accepted>>

\* one iteration of the 'recurse loop of _prove; the last one returns
ProveStep ==
    /\ pc = "proving"
    /\ LET o == IF ProveAtBase(prover.m_a) THEN ProveBase(prover)
                ELSE ProveRound(prover)
       IN  CASE o.kind = "panic" ->
                  /\ pc' = "abort"
                  /\ result' = Panic
                  /\ prover' = NoProver
                  /\ UNCHANGED <<proof, aux, trace, origin, accepted>>
             [] o.kind = "err" ->
                  /\ pc' = "idle"
                  /\ result' = ResultErr(o.err)
                  /\ prover' = NoProver
                  /\ UNCHANGED <<proof, aux, trace, origin, accepted>>
             [] o.kind = "next" ->
                  /\ prover' = o.st
                  /\ trace' = Append(trace,
                         [c |-> o.c, m_a |-> o.st.m_a, m_b |-> o.st.m_b,
                          ck_a |-> o.st.ck_a, ck_b |-> o.st.ck_b])
                  /\ UNCHANGED <<pc, result, proof, aux, origin, accepted>>
             [] o.kind = "done" ->
                  /\ pc' = "idle"
                  /\ result' = ResultOk
                  /\ proof' = [r_commitment_steps |->
                                   ProveOutputOrder(prover.r_commitment_steps),
                               r_base |-> o.m_base]
                  \* prove drops the GIPAAux, prove_with_aux returns it
                  /\ aux' = IF op = "prove_with_aux"
                            THEN [present |-> TRUE,
                                  r_transcript |-> ProveOutputOrder(prover.r_transcript),
                                  ck_base |-> o.ck_base]
                            ELSE NoAux
                  /\ origin' = "prover"
                  /\ accepted' = FALSE
                  /\ prover' = NoProver
                  /\ UNCHANGED trace
    /\ UNCHANGED <<values, ck, com, op, verifier, accept, challenges, vtrace>>

\* GIPA::verify up to the first iteration of the loop of _verify
Verify ==
    /\ pc = "idle"
    /\ op' = "verify"
    /\ accept' = FALSE
    /\ challenges' = NoChallenges
    /\ LET e == VerifyChecks(ck) IN
       IF e # NoError
       THEN /\ result' = ResultErr(e)
            /\ UNCHANGED <<pc, verifier, vtrace>>
       ELSE IF ~is_power_of_two(Len(ck[1]))
       THEN /\ pc' = "abort"
            /\ result' = Panic
            /\ UNCHANGED <<verifier, vtrace>>
       ELSE /\ pc' = "verifying"
            /\ result' = Running
            /\ verifier' = [ck_a |-> ck[1], ck_b |-> ck[2], ck_t |-> ck[3],
                            com |-> com, transcript |-> 0,
                            i |-> Len(proof.r_commitment_steps)]
            /\ vtrace' = <<>>
    /\ UNCHANGED <<values, ck, com, prover, proof, aux, trace, origin, accepted>>

\* one iteration of the loop of _verify, or the base check after the last one
VerifyStep ==
    /\ pc = "verifying"
    /\ IF verifier.i >= 1
       THEN LET o == VerifyRound(verifier, proof.r_commitment_steps[verifier.i]) IN
            IF o.kind = "panic"
            THEN /\ pc' = "abort"
                 /\ result' = Panic
                 /\ verifier' = NoVerifier
                 /\ UNCHANGED <<accept, vtrace, accepted>>
            ELSE /\ verifier' = o.st
                 /\ vtrace' = Append(vtrace,
                        [c |-> o.st.transcript, ck_a |-> o.st.ck_a,
                         ck_b |-> o.st.ck_b, com |-> o.st.com])
                 /\ UNCHANGED <<pc, result, accept, accepted>>
       ELSE LET r == VerifyBase(verifier, proof.r_base) IN
            /\ pc' = "idle"
            /\ verifier' = NoVerifier
            /\ result' = IF r.ok THEN ResultOk ELSE ResultErr(External(r.v))
            /\ accept' = (r.ok /\ r.v)
            /\ accepted' = IF origin \in {"given", "prover"}
                           THEN (r.ok /\ r.v) ELSE accepted
            /\ UNCHANGED vtrace
    /\ UNCHANGED <<values, ck, com, op, prover, proof, aux, challenges, trace, origin>>

\* GIPA::verify_recursive_challenge_transcript
VerifyRecursiveChallengeTranscript ==
    /\ pc = "idle"
    /\ op' = "verify_recursive_challenge_transcript"
    /\ accept' = FALSE
    /\ challenges' = verify_recursive_challenge_transcript(com, proof)
    /\ result' = ResultOk
    /\ UNCHANGED <<values, ck, com, pc, prover, verifier, proof, aux, trace, vtrace,
                   origin, accepted>>

\* the caller replaces one base message of a proof that verify accepted
TamperBase ==
    /\ pc = "idle"
    /\ accepted
    /\ origin \in {"given", "prover"}
    /\ \E which \in {1, 2} : \E x \in Scalar :
          /\ x # proof.r_base[which]
          /\ proof' = [proof EXCEPT !.r_base[which] = x]
          /\ origin' = IF which = 1 THEN "base0" ELSE "base1"
    /\ op' = "none"
    /\ result' = NoResult
    /\ accept' = FALSE
    /\ challenges' = NoChallenges
    /\ UNCHANGED <<values, ck, com, pc, prover, verifier, aux, trace, vtrace, accepted>>

Next ==
    \/ Prove
    \/ ProveWithAux
    \/ ProveStep
    \/ Verify
    \/ VerifyStep
    \/ VerifyRecursiveChallengeTranscript
    \/ TamperBase

Spec == Init /\ [][Next]_vars

----------------------------------------------------------------------------
(* Vocabulary of the properties *)

LenA == Len(values[1])

\* |A| = |B| = |ck_L| = |ck_R|
EqualLengths == Len(values[2]) = LenA /\ Len(ck[1]) = LenA /\ Len(ck[2]) = LenA

EqualPow2 == EqualLengths /\ is_power_of_two(LenA)

\* t = ip(A, B)
HonestT ==
    LET ip == inner_product(values[1], values[2]) IN ip.ok /\ ip.v = values[3]

\* com_L, com_R, com_T verify against (ck_L, A), (ck_R, B), (ck_T, [t])
HonestCom ==
    LET l == commit_verify(ck[1], values[1], com[1])
        r == commit_verify(ck[2], values[2], com[2])
        t == ipc_verify(ck[3], <<values[3]>>, com[3])
    IN  (l.ok /\ l.v) /\ (r.ok /\ r.v) /\ (t.ok /\ t.v)

HonestInputs == EqualPow2 /\ HonestT /\ HonestCom

\* prove has returned to its caller
ProveReturned == op = "prove" /\ pc = "idle"

\* verify has returned to its caller
VerifyReturned == op = "verify" /\ pc = "idle"

\* the held proof is the output of a finished prover run on the inputs, and
\* trace is the record of that run
ProverDone == origin = "prover" /\ pc # "proving"

Rounds == Log2(LenA)

\* the prover's vectors after round j (the inputs for j = 0)
Folded(j) ==
    IF j = 0
    THEN [m_a |-> values[1], m_b |-> values[2], ck_a |-> ck[1], ck_b |-> ck[2]]
    ELSE [m_a |-> trace[j].m_a, m_b |-> trace[j].m_b,
          ck_a |-> trace[j].ck_a, ck_b |-> trace[j].ck_b]

\* the verifier's keys after its last round (the input keys without rounds)
VerifierFinalKeys ==
    IF Len(vtrace) = 0 THEN <<ck[1], ck[2]>>
    ELSE <<vtrace[Len(vtrace)].ck_a, vtrace[Len(vtrace)].ck_b>>

RECURSIVE Pow2(_)
Pow2(j) == IF j = 0 THEN 1 ELSE 2 * Pow2(j - 1)

----------------------------------------------------------------------------
(* C1 *)

\* C1 Completeness: on honest inputs of power-of-two length prove returns a
\* proof, and verify called with the same keys, the same commitments and the
\* prover's proof returns Ok(true).
C1_Completeness ==
    HonestInputs =>
        /\ ProveReturned => (result = ResultOk /\ origin = "prover")
        /\ (VerifyReturned /\ origin = "prover") => (result = ResultOk /\ accept)

C1_Witness ==
    /\ HonestInputs
    /\ LenA = 4
    /\ values[3] # 0
    /\ com[1] # 0
    /\ com[2] # 0
    /\ VerifyReturned
    /\ origin = "prover"
    /\ ~aux.present
    /\ accept

----------------------------------------------------------------------------
(* C2 *)

\* C2 Opening guard, as claimed: prove called with a t that differs from
\* ip(A,B), or with a commitment that does not verify against its opening,
\* returns InnerProductInvalid and produces no proof. Stated on calls whose
\* four vectors have one length, so that ip and the three openings are all
\* defined.
C2_Original ==
    (op = "prove" /\ EqualLengths /\ (~HonestT \/ ~HonestCom))
        => (pc = "idle" /\ result = ResultErr(InnerProductInvalid))

\* C2 Opening guard, as amended: prove called with |A| = |B| and a t that
\* differs from ip(A,B) returns InnerProductInvalid; prove called with
\* t = ip(A,B), four vectors of one power-of-two length, and a commitment that
\* does not verify returns InnerProductInvalid. No folding round runs and no
\* proof is produced.
C2_OpeningGuard ==
    op = "prove" =>
        /\ (Len(values[2]) = LenA /\ ~HonestT)
               => (pc = "idle" /\ result = ResultErr(InnerProductInvalid))
        /\ (EqualPow2 /\ HonestT /\ ~HonestCom)
               => (pc = "idle" /\ result = ResultErr(InnerProductInvalid))

C2_Witness ==
    /\ ProveReturned
    /\ EqualPow2
    /\ LenA = 4
    /\ HonestT
    /\ commit_verify(ck[1], values[1], com[1]) = Ok(TRUE)
    /\ commit_verify(ck[2], values[2], com[2]) = Ok(FALSE)
    /\ result = ResultErr(InnerProductInvalid)
    /\ origin = "given"

----------------------------------------------------------------------------
(* C3 *)

\* a key vector of verify has a length that is not a power of two
BadKeyLength == ~is_power_of_two(Len(ck[1])) \/ ~is_power_of_two(Len(ck[2]))

\* C3 Length validation, as claimed: prove called with message vectors whose
\* length is not a power of two, and verify called with key vectors whose
\* length is not a power of two, return MessageLengthInvalid whatever the
\* other arguments are. The prove half is stated on calls with |A| = |B|.
C3_Original ==
    /\ (op = "prove" /\ Len(values[2]) = LenA /\ ~is_power_of_two(LenA))
           => /\ pc = "idle"
              /\ result = ResultErr(MessageLengthInvalid(LenA, Len(values[2])))
    /\ (op = "verify" /\ BadKeyLength)
           => /\ pc = "idle"
              /\ result = ResultErr(MessageLengthInvalid(Len(ck[1]), Len(ck[2])))

\* C3 Length validation, as amended: prove called with |A| = |B| not a power
\* of two (0 included) returns MessageLengthInvalid(|A|,|B|) when t = ip(A,B),
\* whatever the keys and commitments are, and InnerProductInvalid when
\* t # ip(A,B); verify called with a key vector whose length is not a power of
\* two returns MessageLengthInvalid(|ck_L|,|ck_R|) whatever the other
\* arguments are.
C3_LengthValidation ==
    /\ (op = "prove" /\ Len(values[2]) = LenA /\ ~is_power_of_two(LenA))
           => /\ pc = "idle"
              /\ result = IF HonestT
                          THEN ResultErr(MessageLengthInvalid(LenA, Len(values[2])))
                          ELSE ResultErr(InnerProductInvalid)
    /\ (op = "verify" /\ BadKeyLength)
           => /\ pc = "idle"
              /\ result = ResultErr(MessageLengthInvalid(Len(ck[1]), Len(ck[2])))

C3_Witness ==
    /\ op = "prove"
    /\ LenA = 3
    /\ Len(values[2]) = 3
    /\ Len(ck[1]) = 3
    /\ Len(ck[2]) = 3
    /\ HonestT
    /\ ~HonestCom
    /\ result = ResultErr(MessageLengthInvalid(3, 3))

----------------------------------------------------------------------------
(* C4 *)

\* C4 Length equality is checked by prove, as claimed: whenever the four
\* vectors do not all have the same length, prove returns
\* MessageLengthInvalid(|A|,|B|) and no folding round runs.
C4_LengthEquality ==
    (op = "prove" /\ ~EqualLengths)
        => /\ pc = "idle"
           /\ result = ResultErr(MessageLengthInvalid(LenA, Len(values[2])))

----------------------------------------------------------------------------
(* C5 *)

\* C5 Transcript agreement: for a proof and Aux returned together by
\* prove_with_aux on honest inputs of power-of-two length, the challenge list
\* returned by verify_recursive_challenge_transcript on that proof with the
\* honest commitments equals Aux's transcript, element by element.
C5_TranscriptAgreement ==
    (HonestInputs /\ ProverDone /\ aux.present /\ challenges.present)
        => challenges.r_transcript = aux.r_transcript

C5_Witness ==
    /\ HonestInputs
    /\ ProverDone
    /\ aux.present
    /\ challenges.present
    /\ Len(aux.r_transcript) = 2
    /\ aux.r_transcript[1] # aux.r_transcript[2]
    /\ challenges.r_transcript = aux.r_transcript

----------------------------------------------------------------------------
(* C6 *)

\* C6 Proof and Aux shape: for input length n = 2^k the loop of the prover
\* runs exactly k rounds, each halving all four vectors; the proof has k round
\* entries, the Aux transcript k challenges, the base is (A[0], B[0]) of the
\* fully folded vectors and the base keys are (ck_L[0], ck_R[0]) of the fully
\* folded keys.
C6_Shape ==
    (EqualPow2 /\ ProverDone) =>
        /\ Len(trace) = Rounds
        /\ Len(proof.r_commitment_steps) = Rounds
        /\ \A j \in 1..Len(trace) :
              /\ Len(trace[j].m_a) * Pow2(j) = LenA
              /\ Len(trace[j].m_b) * Pow2(j) = LenA
              /\ Len(trace[j].ck_a) * Pow2(j) = LenA
              /\ Len(trace[j].ck_b) * Pow2(j) = LenA
        /\ Len(Folded(Len(trace)).m_a) = 1
        /\ proof.r_base = <<Folded(Len(trace)).m_a[1], Folded(Len(trace)).m_b[1]>>
        /\ aux.present =>
              /\ Len(aux.r_transcript) = Rounds
              /\ aux.ck_base =
                     <<Folded(Len(trace)).ck_a[1], Folded(Len(trace)).ck_b[1]>>

C6_Witness ==
    /\ EqualPow2
    /\ ProverDone
    /\ aux.present
    /\ LenA = 4
    /\ Len(proof.r_commitment_steps) = 2
    /\ Len(aux.r_transcript) = 2
    /\ proof.r_base # <<values[1][1], values[2][1]>>
    /\ aux.ck_base # <<ck[1][1], ck[2][1]>>

----------------------------------------------------------------------------
(* C7 *)

\* C7 Challenge order, as claimed: in the Aux transcript of prove_with_aux and
\* in the challenge vector of verify_recursive_challenge_transcript, element 0
\* is the challenge of the first (full-length) round and the last element is
\* the challenge of the final round before the base case.
C7_Original ==
    (EqualPow2 /\ ProverDone /\ Len(trace) >= 1) =>
        /\ aux.present =>
              /\ aux.r_transcript[1] = trace[1].c
              /\ aux.r_transcript[Len(trace)] = trace[Len(trace)].c
        /\ challenges.present =>
              /\ challenges.r_transcript[1] = trace[1].c
              /\ challenges.r_transcript[Len(trace)] = trace[Len(trace)].c

\* C7 Challenge order, as amended: both lists hold the challenges in the
\* reverse of the order of the rounds: element 0 is the challenge of the final
\* round before the base case and the last element is the challenge of the
\* first (full-length) round.
C7_ChallengeOrder ==
    (EqualPow2 /\ ProverDone) =>
        /\ aux.present =>
              /\ Len(aux.r_transcript) = Len(trace)
              /\ \A i \in 1..Len(trace) :
                    aux.r_transcript[i] = trace[Len(trace) + 1 - i].c
        /\ challenges.present =>
              /\ Len(challenges.r_transcript) = Len(trace)
              /\ \A i \in 1..Len(trace) :
                    challenges.r_transcript[i] = trace[Len(trace) + 1 - i].c

C7_Witness ==
    /\ EqualPow2
    /\ ProverDone
    /\ aux.present
    /\ challenges.present
    /\ Len(trace) = 2
    /\ trace[1].c # trace[2].c
    /\ aux.r_transcript = <<trace[2].c, trace[1].c>>
    /\ challenges.r_transcript = <<trace[2].c, trace[1].c>>

----------------------------------------------------------------------------
(* C8 *)

\* C8 No abort, as claimed: no call of prove, prove_with_aux, verify or
\* verify_recursive_challenge_transcript, on any input, ends in an assertion
\* failure or an out-of-range slice or index access.
C8_NoAbort == pc # "abort"

----------------------------------------------------------------------------
(* C9 *)

\* verify has returned for a proof whose base message 0 or 1 was replaced
\* after verify accepted the proof
TamperedVerified == origin \in {"base0", "base1"} /\ VerifyReturned

\* the folded key that the replaced base message is checked against
TamperedSideKey ==
    IF origin = "base0" THEN VerifierFinalKeys[1][1] ELSE VerifierFinalKeys[2][1]

NoZeroEntry(v) == \A i \in 1..Len(v) : v[i] # 0

\* C9 Tampered base is rejected, as claimed: replacing proof.base.0 or
\* proof.base.1 of an accepted proof by a different message makes verify
\* return Ok(false), and verify does not panic. Stated on calls whose keys and
\* messages have no zero entry.
C9_Original ==
    (NoZeroEntry(ck[1]) /\ NoZeroEntry(ck[2])
       /\ NoZeroEntry(values[1]) /\ NoZeroEntry(values[2])) =>
        /\ (origin \in {"base0", "base1"} /\ op = "verify") => pc # "abort"
        /\ TamperedVerified => (result = ResultOk /\ ~accept)

\* C9 Tampered base is rejected, as amended: replacing proof.base.0 or
\* proof.base.1 of an accepted proof by a different message makes verify
\* return a boolean without panic, and the boolean is false whenever the fully
\* folded key of the replaced side (ck_L for base.0, ck_R for base.1) is not
\* the zero key.
C9_TamperedBase ==
    /\ (origin \in {"base0", "base1"} /\ op = "verify") => pc # "abort"
    /\ TamperedVerified =>
          /\ result = ResultOk
          /\ TamperedSideKey # 0 => ~accept

C9_Witness ==
    /\ TamperedVerified
    /\ origin = "base0"
    /\ Len(vtrace) = 2
    /\ TamperedSideKey # 0
    /\ proof.r_base[2] = 0
    /\ result = ResultOk
    /\ ~accept

----------------------------------------------------------------------------
(* C10 *)

\* the upper and the lower half of a vector
Upper(v) == SubSeq(v, (Len(v) \div 2) + 1, Len(v))

Lower(v) == SubSeq(v, 1, Len(v) \div 2)

\* s * x + y, element by element
Combine(s, x, y) == [i \in 1..Len(x) |-> (s * x[i] + y[i]) % P]

\* C10 Fold invariant: in an honest run, after round j with challenge c the
\* verifier has derived the same c, its keys equal the prover's keys
\* ck_L' = c^-1 * ck_L[h:] + ck_L[:h] and ck_R' = c * ck_R[h:] + ck_R[:h], and
\* its folded commitments equal L.commit(ck_L', A'), R.commit(ck_R', B') and
\* T.commit(ck_T, [ip(A', B')]) for the prover's A' = c * A[h:] + A[:h] and
\* B' = c^-1 * B[h:] + B[:h]; after the last round the verifier's keys equal
\* Aux.ck_base.
C10_FoldInvariant ==
    (HonestInputs /\ ProverDone) =>
        /\ Len(vtrace) <= Len(trace)
        /\ \A j \in 1..Len(vtrace) :
              LET c == trace[j].c
                  c_inv == Inverse(c)
                  before == Folded(j - 1)
                  after == Folded(j)
              IN  /\ vtrace[j].c = c
                  /\ after.m_a = Combine(c, Upper(before.m_a), Lower(before.m_a))
                  /\ after.m_b = Combine(c_inv, Upper(before.m_b), Lower(before.m_b))
                  /\ after.ck_a = Combine(c_inv, Upper(before.ck_a), Lower(before.ck_a))
                  /\ after.ck_b = Combine(c, Upper(before.ck_b), Lower(before.ck_b))
                  /\ vtrace[j].ck_a = after.ck_a
                  /\ vtrace[j].ck_b = after.ck_b
                  /\ Ok(vtrace[j].com[1]) = commit(after.ck_a, after.m_a)
                  /\ Ok(vtrace[j].com[2]) = commit(after.ck_b, after.m_b)
                  /\ Ok(vtrace[j].com[3]) = inner_product(after.m_a, after.m_b)
        /\ (VerifyReturned /\ aux.present) =>
              aux.ck_base = <<VerifierFinalKeys[1][1], VerifierFinalKeys[2][1]>>

C10_Witness ==
    /\ HonestInputs
    /\ ProverDone
    /\ VerifyReturned
    /\ aux.present
    /\ Len(vtrace) = 2
    /\ vtrace[1].ck_a # Lower(ck[1])
    /\ vtrace[2].com[1] # 0
    /\ vtrace[2].com[2] # 0
    /\ vtrace[2].com[3] # 0
    /\ aux.ck_base = <<vtrace[2].ck_a[1], vtrace[2].ck_b[1]>>

----------------------------------------------------------------------------
(* Proofs whose number of rounds the caller changed *)

MaxExtraRounds == 2   \* rounds the caller adds to a proof

\* a round entry of zero commitments
ZeroStep == <<<<0, 0, 0>>, <<0, 0, 0>>>>

\* n copies of the round entry s
Copies(s, n) == [i \in 1..n |-> s]

\* the caller takes the proof that prove_with_aux has just returned for honest
\* inputs and adds round entries to it or removes some, keeping keys and
\* commitments
ChangeRounds ==
    /\ pc = "idle"
    /\ origin = "prover"
    /\ op = "prove_with_aux"
    /\ result = ResultOk
    /\ HonestInputs
    /\ LET steps == proof.r_commitment_steps IN
       \/ \E n \in 1..MaxExtraRounds :
          \E s \in {ZeroStep} \cup {steps[i] : i \in 1..Len(steps)} :
             proof' = [proof EXCEPT !.r_commitment_steps = Copies(s, n) \o steps]
       \/ \E n \in 1..Len(steps) :
             proof' = [proof EXCEPT !.r_commitment_steps =
                          SubSeq(steps, n + 1, Len(steps))]
    /\ origin' = "rounds"
    /\ op' = "none"
    /\ result' = NoResult
    /\ accept' = FALSE
    /\ accepted' = FALSE
    /\ challenges' = NoChallenges
    /\ vtrace' = <<>>
    /\ UNCHANGED <<values, ck, com, pc, prover, verifier, aux, trace>>

NextRounds ==
    \/ ProveWithAux
    \/ ProveStep
    \/ ChangeRounds
    \/ Verify
    \/ VerifyStep

\* prove_with_aux and verify, with callers that change the number of rounds of
\* a proof
SpecRounds == Init /\ [][NextRounds]_vars

----------------------------------------------------------------------------
(* C11 *)

\* verify is running or has run with keys that pass its length check and a
\* proof whose number of rounds is not log2 |ck_L|
RoundMismatch ==
    /\ op = "verify"
    /\ VerifyChecks(ck) = NoError
    /\ Len(proof.r_commitment_steps) # Log2(Len(ck[1]))

\* as RoundMismatch, with more rounds than the keys can be halved
ExtraRounds ==
    /\ op = "verify"
    /\ VerifyChecks(ck) = NoError
    /\ Len(proof.r_commitment_steps) > Log2(Len(ck[1]))

\* C11 Round-count mismatch, as claimed: verify does not compare the number of
\* rounds of the proof with log2 |ck_L|, and the key folding of a proof with
\* more rounds than log2 |ck_L| runs into an out-of-bounds access: verify does
\* not return to its caller.
C11_Original ==
    /\ RoundMismatch => result.err.kind # "MessageLengthInvalid"
    /\ ExtraRounds => pc # "idle"

\* C11 Round-count mismatch, as amended: verify does not compare the number of
\* rounds of the proof with log2 |ck_L| and runs every round of the proof, but
\* no round count, larger or smaller, drives the key folding out of bounds:
\* the keys are split at half their own length and zip cuts to the shorter
\* half, so surplus rounds fold keys down to the empty vector; verify then
\* returns the error of LMC::verify on a key vector whose length is not 1.
C11_RoundMismatch ==
    RoundMismatch =>
        /\ pc # "abort"
        /\ result.err.kind # "MessageLengthInvalid"
        /\ pc = "verifying" =>
              /\ Len(verifier.ck_a) = Len(verifier.ck_b)
              /\ Len(vtrace) + verifier.i = Len(proof.r_commitment_steps)
        /\ pc = "idle" =>
              /\ Len(vtrace) = Len(proof.r_commitment_steps)
              /\ Len(VerifierFinalKeys[1]) # 1
              /\ result = ResultErr(External("CommitmentError"))

C11_Witness ==
    /\ RoundMismatch
    /\ origin = "rounds"
    /\ pc = "idle"
    /\ Len(ck[1]) = 4
    /\ Len(proof.r_commitment_steps) = 4
    /\ Len(vtrace) = 4
    /\ Len(vtrace[2].ck_a) = 1
    /\ vtrace[3].ck_a = <<>>
    /\ vtrace[4].ck_a = <<>>
    /\ result = ResultErr(External("CommitmentError"))

====
